---- MODULE Spec2Model ----
(***************************************************************************)
(* db_explorer.go: a generic HTTP CRUD service over the tables of a        *)
(* relational database.  The model covers the router, the query and path   *)
(* decoders, the field validator, the statement builders and the request   *)
(* handlers, together with the part of the database engine the statements  *)
(* rely on (row store, auto-increment, constraint metadata, failures).     *)
(*                                                                         *)
(* Strings that the code takes apart (paths, query values, table names)    *)
(* are sequences of one-character strings; strings it only compares or     *)
(* copies (column names, type names, messages) are TLA+ strings.           *)
(***************************************************************************)
EXTENDS Integers, Sequences, FiniteSets, TLC

VARIABLES TableNames, TableColumns, db, phase, req, resp, stmts, startup

vars == <<TableNames, TableColumns, db, phase, req, resp, stmts, startup>>

(***************************************************************************)
(* Bounds of the model.                                                    *)
(***************************************************************************)
\* rows the engine may add to the database over a run (all tables together)
MaxCreate == 2

(***************************************************************************)
(* Characters, strings, regular expressions.                               *)
(***************************************************************************)
Digits == {"0", "1", "2", "3", "4", "5", "6", "7", "8", "9"}

Letters == {"t", "u", "x", "_", "n", "k"}

DigitVal(c) ==
    CASE c = "0" -> 0 [] c = "1" -> 1 [] c = "2" -> 2 [] c = "3" -> 3
      [] c = "4" -> 4 [] c = "5" -> 5 [] c = "6" -> 6 [] c = "7" -> 7
      [] c = "8" -> 8 [] c = "9" -> 9

\* \w taking the path separator too
isWordChar_Slash(c) == c \in Letters \cup Digits \cup {"/"}

\* \w of regexp: [0-9A-Za-z_]
isWordChar(c) == c \in Letters \cup Digits

\* [0-9] of regexp
isDigitChar(c) == c \in Digits

AllDigits(s) == \A i \in 1..Len(s) : isDigitChar(s[i])

RECURSIVE DigitsValue(_)
DigitsValue(s) ==
    IF s = <<>> THEN 0
    ELSE 10 * DigitsValue(SubSeq(s, 1, Len(s) - 1)) + DigitVal(s[Len(s)])

\* strconv.Atoi: an optional sign, then one or more decimal digits
Atoi(s) ==
    LET signed == s /= <<>> /\ s[1] \in {"-", "+"}
        body   == IF signed THEN Tail(s) ELSE s
    IN  IF body = <<>> \/ ~AllDigits(body)
        THEN [ok |-> FALSE, val |-> 0]
        ELSE [ok |-> TRUE,
              val |-> IF signed /\ s[1] = "-"
                      THEN 0 - DigitsValue(body) ELSE DigitsValue(body)]

\* strings.Split(s, "/")
RECURSIVE Split(_)
Split(s) ==
    IF \A i \in 1..Len(s) : s[i] /= "/" THEN <<s>>
    ELSE LET i == CHOOSE k \in 1..Len(s) :
                      s[k] = "/" /\ \A j \in 1..(k - 1) : s[j] /= "/"
         IN  <<SubSeq(s, 1, i - 1)>> \o Split(SubSeq(s, i + 1, Len(s)))

\* atoms of a pattern
Lit(c)   == [cls |-> "lit", ch |-> c, star |-> FALSE]
WordStar == [cls |-> "word", ch |-> "", star |-> TRUE]
DigitStar == [cls |-> "digit", ch |-> "", star |-> TRUE]
Bol      == [cls |-> "bol", ch |-> "", star |-> FALSE]
Eol      == [cls |-> "eol", ch |-> "", star |-> FALSE]

AtomTakes(a, c) ==
    CASE a.cls = "lit"   -> c = a.ch
      [] a.cls = "word"  -> isWordChar(c)
      [] a.cls = "digit" -> isDigitChar(c)
      [] OTHER           -> FALSE

\* the pattern from atom k on matches s from position i on (i is 0-based)
RECURSIVE MatchFrom(_, _, _, _)
MatchFrom(re, k, s, i) ==
    IF k > Len(re) THEN TRUE
    ELSE LET a == re[k] IN
         CASE a.cls = "bol" -> i = 0 /\ MatchFrom(re, k + 1, s, i)
           [] a.cls = "eol" -> i = Len(s) /\ MatchFrom(re, k + 1, s, i)
           [] a.star ->
                MatchFrom(re, k + 1, s, i)
                \/ (i < Len(s) /\ AtomTakes(a, s[i + 1]) /\ MatchFrom(re, k, s, i + 1))
           [] OTHER ->
                i < Len(s) /\ AtomTakes(a, s[i + 1]) /\ MatchFrom(re, k + 1, s, i + 1)

\* regexp.Regexp.MatchString: the pattern matches somewhere in s
MatchString(re, s) == \E i \in 0..Len(s) : MatchFrom(re, 1, s, i)

(***************************************************************************)
(* JSON values (encoding/json into map[string]any) and driver values.      *)
(***************************************************************************)
Num(n)  == [k |-> "num", n |-> n, s |-> ""]
Str(t)  == [k |-> "str", n |-> 0, s |-> t]
Null    == [k |-> "null", n |-> 0, s |-> ""]
Bool(b) == [k |-> "bool", n |-> IF b THEN 1 ELSE 0, s |-> ""]
\* a JSON array ([]any) and a JSON object (map[string]any)
Arr     == [k |-> "arr", n |-> 0, s |-> ""]
Obj     == [k |-> "obj", n |-> 0, s |-> ""]

EmptyForm == [c \in {} |-> Null]

\* the keys of a map, the map with one more entry
Put(m, key, v) == [c \in (DOMAIN m) \cup {key} |-> IF c = key THEN v ELSE m[c]]

(***************************************************************************)
(* The database the service is started on: what the engine holds and       *)
(* reports.  Table t has a primary key, a NOT NULL string column and a     *)
(* nullable numeric column; table u has a differently named primary key    *)
(* and a NOT NULL numeric column.                                          *)
(***************************************************************************)
TblT == <<"t">>
TblU == <<"u">>
\* tables of a second database: n has no primary key, k has the composite
\* primary key (a, b)
TblN == <<"n">>
TblK == <<"k">>

Column(name, type, nullable) ==
    [name |-> name, type |-> type, nullable |-> nullable, nullableOk |-> TRUE]

\* SHOW TABLES
EngineTables == <<TblT, TblU>>

\* the column metadata of SELECT * FROM table LIMIT 0
EngineColumns(table) ==
    IF table = TblT
    THEN <<Column("id", "INT", FALSE), Column("title", "VARCHAR", FALSE),
           Column("qty", "NUMBER", TRUE)>>
    ELSE IF table = TblU
    THEN <<Column("uid", "INT", FALSE), Column("qty", "NUMBER", FALSE)>>
    ELSE IF table = TblN
    THEN <<Column("title", "VARCHAR", FALSE), Column("qty", "NUMBER", TRUE)>>
    ELSE IF table = TblK
    THEN <<Column("a", "INT", FALSE), Column("b", "INT", FALSE),
           Column("title", "VARCHAR", TRUE)>>
    ELSE <<>>

\* INFORMATION_SCHEMA.KEY_COLUMN_USAGE rows with CONSTRAINT_NAME = 'PRIMARY'
EnginePrimaryKey(table) ==
    IF table = TblT THEN <<"id">>
    ELSE IF table = TblU THEN <<"uid">>
    ELSE IF table = TblK THEN <<"a", "b">>
    ELSE <<>>

\* the AUTO_INCREMENT column of a table, if it has one
EngineAutoIncrement(table) ==
    IF table \in {TblT, TblU} THEN EnginePrimaryKey(table) ELSE <<>>

\* rows and auto-increment counters at startup
EngineInitial ==
    [tb \in {TblT, TblU} |->
        IF tb = TblT
        THEN [rows |-> <<[c \in {"id", "title", "qty"} |->
                            CASE c = "id" -> Num(1) [] c = "title" -> Str("a")
                              [] OTHER -> Num(7)]>>,
              next |-> 2]
        ELSE [rows |-> <<>>, next |-> 1]]

\* SHOW TABLES, rows and counters of the second database: two rows of k
\* agree on b
EngineTablesKeys == <<TblN, TblK>>

EngineInitialKeys ==
    [tb \in {TblN, TblK} |->
        IF tb = TblN
        THEN [rows |-> <<[c \in {"title", "qty"} |->
                            IF c = "title" THEN Str("a") ELSE Num(7)]>>,
              next |-> 1]
        ELSE [rows |-> <<[c \in {"a", "b", "title"} |->
                            CASE c = "a" -> Num(1) [] c = "b" -> Num(1)
                              [] OTHER -> Null],
                         [c \in {"a", "b", "title"} |->
                            CASE c = "a" -> Num(2) [] c = "b" -> Num(1)
                              [] OTHER -> Null]>>,
              next |-> 1]]

RECURSIVE SumNext(_, _)
SumNext(d, tables) ==
    IF tables = {} THEN 0
    ELSE LET tb == CHOOSE x \in tables : TRUE
         IN  d[tb].next + SumNext(d, tables \ {tb})

\* statements that added a row since the database was d0
CreatedSince(d, d0) == SumNext(d, DOMAIN d) - SumNext(d0, DOMAIN d0)

\* rows added since startup
Created(d) == SumNext(d, DOMAIN d) - SumNext(EngineInitial, DOMAIN EngineInitial)

\* MySQL compares a string parameter with a numeric column by the number its
\* leading digits spell (0 when there are none)
RECURSIVE EngineNumeric(_)
EngineNumeric(s) ==
    IF s = <<>> \/ ~isDigitChar(s[Len(s)]) \/ ~AllDigits(s)
    THEN IF s = <<>> THEN 0 ELSE EngineNumeric(SubSeq(s, 1, Len(s) - 1))
    ELSE DigitsValue(s)

ColumnNames(columns) == {columns[i].name : i \in 1..Len(columns)}

\* positions of the rows of table whose column pk equals the bound value
EngineWhere(d, table, pk, pkValue) ==
    {i \in 1..Len(d[table].rows) : d[table].rows[i][pk] = Num(EngineNumeric(pkValue))}

\* a WHERE clause on pk parses and names a column of the table
EngineKnowsColumn(table, pk) == pk \in ColumnNames(EngineColumns(table))

(***************************************************************************)
(* Statements as the handlers send them (the statement log).               *)
(***************************************************************************)
Stmt(op, table, pk, id, form, limit, offset) ==
    [op |-> op, table |-> table, pk |-> pk, id |-> id, form |-> form,
     limit |-> limit, offset |-> offset]

(***************************************************************************)
(* Responses.  A message is a sequence of string pieces (fmt.Sprintf).     *)
(***************************************************************************)
StatusOK == 200
StatusBadRequest == 400
StatusNotFound == 404
StatusInternalServerError == 500

Response(status, body) == [status |-> status, body |-> body]

\* nothing written to the body
EmptyBody == [kind |-> "empty"]

\* ValidationError.Error
ValidationErrorText(field) == <<"field ", field, " have invalid type">>

\* NewErrorResponse: {"error": <message>}
NewErrorResponse(msg) == [kind |-> "error", error |-> msg]

\* http.Error: the message as plain text
PlainText(msg) == [kind |-> "text", text |-> msg]

\* {"response": <payload>}
Envelope(kind, payload) == [kind |-> kind, response |-> payload]

Out(r, d, st) == [resp |-> r, db |-> d, stmts |-> st]

(***************************************************************************)
(* Column types.                                                            *)
(***************************************************************************)
isNumberType(columnType) == columnType \in {"NUMBER"}

isStringType(columnType) == columnType \in {"VARCHAR", "TEXT", "NVARCHAR"}

\* getDefaultValue giving 0 for every type
getDefaultValue_Zero(dbTypeName) == Num(0)

getDefaultValue(dbTypeName) ==
    IF isNumberType(dbTypeName) THEN Num(0)
    ELSE IF isStringType(dbTypeName) THEN Str("")
    ELSE Bool(FALSE)

(***************************************************************************)
(* Router.                                                                 *)
(***************************************************************************)
\* Handle compiling the pattern as it is given, without "^" and "$"
Handle_Unanchored(routes, method, pattern, handler) ==
    Append(routes, [Method |-> method, Pattern |-> pattern, Handler |-> handler])

\* regexp.MustCompile("^" + pattern + "$")
Handle(routes, method, pattern, handler) ==
    Append(routes, [Method |-> method, Pattern |-> <<Bol>> \o pattern \o <<Eol>>,
                    Handler |-> handler])

\* initRoutes giving the update route the pattern of the listing, /\w*
initRoutes_UpdateWithoutId ==
    LET r1 == Handle(<<>>, "GET", <<Lit("/")>>, "handlerGetTableNames")
        r2 == Handle(r1, "GET", <<Lit("/"), WordStar>>, "handlerGetTableItems")
        r3 == Handle(r2, "GET", <<Lit("/"), WordStar, Lit("/"), DigitStar>>,
                     "handlerGetTableItem")
        r4 == Handle(r3, "PUT", <<Lit("/"), WordStar, Lit("/")>>, "handlerCreateItem")
        r5 == Handle(r4, "DELETE", <<Lit("/"), WordStar, Lit("/"), DigitStar>>,
                     "handlerDeleteItem")
    IN  Handle(r5, "POST", <<Lit("/"), WordStar>>, "handlerUpdateItem")

initRoutes ==
    LET r1 == Handle(<<>>, "GET", <<Lit("/")>>, "handlerGetTableNames")
        r2 == Handle(r1, "GET", <<Lit("/"), WordStar>>, "handlerGetTableItems")
        r3 == Handle(r2, "GET", <<Lit("/"), WordStar, Lit("/"), DigitStar>>,
                     "handlerGetTableItem")
        r4 == Handle(r3, "PUT", <<Lit("/"), WordStar, Lit("/")>>, "handlerCreateItem")
        r5 == Handle(r4, "DELETE", <<Lit("/"), WordStar, Lit("/"), DigitStar>>,
                     "handlerDeleteItem")
    IN  Handle(r5, "POST", <<Lit("/"), WordStar, Lit("/"), DigitStar>>,
               "handlerUpdateItem")

\* the loop of ServeHTTP: the handler of the first route of the request's
\* method whose pattern matches the path, "" when there is none
RECURSIVE RouteFrom(_, _, _, _)
RouteFrom(routes, i, method, path) ==
    IF i > Len(routes) THEN ""
    ELSE IF routes[i].Method /= method THEN RouteFrom(routes, i + 1, method, path)
    ELSE IF MatchString(routes[i].Pattern, path) THEN routes[i].Handler
    ELSE RouteFrom(routes, i + 1, method, path)

Dispatch(method, path) == RouteFrom(initRoutes, 1, method, path)

(***************************************************************************)
(* Schema catalog.                                                         *)
(***************************************************************************)
\* what can happen to SHOW TABLES: it works, the query fails, a row does not
\* scan
Listings == {"ok", "query", "scan"}

\* the rows of SHOW TABLES; a failed query gives no names and no error, a
\* failed Scan gives the error
getTableNames(listing) ==
    CASE listing = "query" -> [names |-> <<>>, err |-> FALSE]
      [] listing = "scan"  -> [names |-> <<>>, err |-> TRUE]
      [] OTHER             -> [names |-> EngineTables, err |-> FALSE]

getColumnTypes(table) == EngineColumns(table)

initTableColumns(names) ==
    [tb \in {names[i] : i \in 1..Len(names)} |-> getColumnTypes(tb)]

NewDbExplorer(listing) ==
    LET got == getTableNames(listing)
    IN  IF got.err
        THEN [TableNames |-> <<>>, TableColumns |-> initTableColumns(<<>>),
              err |-> TRUE]
        ELSE [TableNames |-> got.names, TableColumns |-> initTableColumns(got.names),
              err |-> FALSE]

isValidTableName_Any(tableName) == TRUE

isValidTableName(tableName) ==
    \E i \in 1..Len(TableNames) : TableNames[i] = tableName

\* strings.Split(url, "/")[1]; panics when there is no such element
getTableName(url) ==
    LET parts == Split(url)
    IN  IF Len(parts) < 2 THEN [panic |-> TRUE, err |-> FALSE, name |-> <<>>]
        ELSE IF ~isValidTableName(parts[2])
             THEN [panic |-> FALSE, err |-> TRUE, name |-> <<>>]
             ELSE [panic |-> FALSE, err |-> FALSE, name |-> parts[2]]

\* strings.Split(url, "/")[2]
getId(url) ==
    LET parts == Split(url)
    IN  IF Len(parts) < 3 THEN [panic |-> TRUE, id |-> <<>>]
        ELSE [panic |-> FALSE, id |-> parts[3]]

getColumnTypesFromCache(table) ==
    IF table \in DOMAIN TableColumns
    THEN [err |-> FALSE, columns |-> TableColumns[table]]
    ELSE [err |-> TRUE, columns |-> <<>>]

\* getPrimaryKey taking a table without a primary key for a failure
getPrimaryKey_NoKeyIsError(table, fault) ==
    LET names == EnginePrimaryKey(table)
    IN  IF fault = "pk" \/ names = <<>> THEN [err |-> TRUE, name |-> ""]
        ELSE [err |-> FALSE, name |-> names[Len(names)]]

\* the last column the constraint query returns, "" when it returns none
getPrimaryKey(table, fault) ==
    LET names == EnginePrimaryKey(table)
    IN  IF fault = "pk" THEN [err |-> TRUE, name |-> ""]
        ELSE [err |-> FALSE, name |-> IF names = <<>> THEN "" ELSE names[Len(names)]]

PkStmt(table) == Stmt("pk", table, "", <<>>, EmptyForm, 0, 0)

(***************************************************************************)
(* Pagination.                                                             *)
(***************************************************************************)
DefaultLimit == 5
DefaultOffset == 0

getQueryIntValue(query, key, defaultValue) ==
    IF key \notin DOMAIN query THEN defaultValue
    ELSE LET parsed == Atoi(query[key])
         IN  IF ~parsed.ok THEN defaultValue ELSE parsed.val

\* getPagination with the two keys exchanged
getPagination_Swapped(query) ==
    [Limit  |-> getQueryIntValue(query, "offset", DefaultLimit),
     Offset |-> getQueryIntValue(query, "limit", DefaultOffset)]

getPagination(query) ==
    [Limit  |-> getQueryIntValue(query, "limit", DefaultLimit),
     Offset |-> getQueryIntValue(query, "offset", DefaultOffset)]

(***************************************************************************)
(* Row decoding (shared by getTableItems and getItem).                     *)
(***************************************************************************)
\* Scan into sql.NullString
ScanNullString(v) ==
    IF v.k = "null" THEN [Valid |-> FALSE, String |-> ""]
    ELSE [Valid |-> TRUE, String |-> v.s]

\* one scanned value as it is put into the record
DecodeValue(columnType, v) ==
    IF isStringType(columnType)
    THEN LET strOrNil == ScanNullString(v)
         IN  IF strOrNil.Valid THEN Str(strOrNil.String) ELSE Null
    ELSE v

DecodeRow(columnTypes, row) ==
    [c \in ColumnNames(columnTypes) |->
        LET i == CHOOSE j \in 1..Len(columnTypes) : columnTypes[j].name = c
        IN  DecodeValue(columnTypes[i].type, row[c])]

Min(a, b) == IF a < b THEN a ELSE b

\* SELECT * FROM table LIMIT ? OFFSET ?; the engine rejects a negative bound
\* and a table it does not have
getTableItems(table, pagination, fault) ==
    LET rows == db[table].rows
        columnTypes == EngineColumns(table)
        window == SubSeq(rows, pagination.Offset + 1,
                         Min(Len(rows), pagination.Offset + pagination.Limit))
    IN  IF \/ fault = "stmt"
           \/ table \notin DOMAIN db
           \/ pagination.Limit < 0
           \/ pagination.Offset < 0
        THEN [err |-> TRUE, res |-> <<>>]
        ELSE [err |-> FALSE,
              res |-> [i \in 1..Len(window) |-> DecodeRow(columnTypes, window[i])]]

\* getItem without the error of a Scan that finds no row
getItem_NoRowsIgnored(table, pkName, pkValue, fault) ==
    LET cache == getColumnTypesFromCache(table)
        hits  == EngineWhere(db, table, pkName, pkValue)
    IN  IF fault = "stmt" \/ ~EngineKnowsColumn(table, pkName)
        THEN [err |-> TRUE, res |-> EmptyForm]
        ELSE IF cache.err THEN [err |-> TRUE, res |-> EmptyForm]
        ELSE IF hits = {} THEN [err |-> FALSE, res |-> EmptyForm]
        ELSE LET i == CHOOSE j \in hits : \A h \in hits : j <= h
             IN  [err |-> FALSE, res |-> DecodeRow(cache.columns, db[table].rows[i])]

\* SELECT * FROM table WHERE pkName = ?, first row
getItem(table, pkName, pkValue, fault) ==
    LET cache == getColumnTypesFromCache(table)
        hits  == EngineWhere(db, table, pkName, pkValue)
    IN  IF fault = "stmt" \/ ~EngineKnowsColumn(table, pkName)
        THEN [err |-> TRUE, res |-> EmptyForm]
        ELSE IF cache.err THEN [err |-> TRUE, res |-> EmptyForm]
        ELSE IF hits = {} THEN [err |-> TRUE, res |-> EmptyForm]
        ELSE LET i == CHOOSE j \in hits : \A h \in hits : j <= h
             IN  [err |-> FALSE, res |-> DecodeRow(cache.columns, db[table].rows[i])]

(***************************************************************************)
(* Field validator.                                                        *)
(***************************************************************************)
ValidationOptions(ignorePk, ignoreNotProvidedField, withDefaultValues) ==
    [IgnorePk |-> ignorePk, IgnoreNotProvidedField |-> ignoreNotProvidedField,
     WithDefaultValues |-> withDefaultValues]

FormOk(newForm) == [err |-> "", field |-> "", form |-> newForm]
FormFails(kind, name, newForm) == [err |-> kind, field |-> name, form |-> newForm]

\* the type switch without its nil case
TypeSwitchRefuses_NoNilCase(value, c) ==
    CASE value.k = "num"  -> ~isNumberType(c.type)
      [] value.k = "str"  -> ~isStringType(c.type)
      [] OTHER            -> FALSE

\* the type switch with a default case that refuses every other kind
TypeSwitchRefuses_Default(value, c) ==
    CASE value.k = "num"  -> ~isNumberType(c.type)
      [] value.k = "str"  -> ~isStringType(c.type)
      [] value.k = "null" -> ~c.nullable
      [] OTHER            -> TRUE

\* the type switch on a submitted value: TRUE when the value is refused
TypeSwitchRefuses(value, c) ==
    CASE value.k = "num"  -> ~isNumberType(c.type)
      [] value.k = "str"  -> ~isStringType(c.type)
      [] value.k = "null" -> ~c.nullable
      [] OTHER            -> FALSE

\* the loop of processForm from column i on
RECURSIVE processFormFrom(_, _, _, _, _, _)
processFormFrom(form, columns, primaryKey, opts, i, newForm) ==
    IF i > Len(columns) THEN FormOk(newForm)
    ELSE LET c    == columns[i]
             name == c.name
             has  == name \in DOMAIN form
             rest(nf) == processFormFrom(form, columns, primaryKey, opts, i + 1, nf)
         IN  IF ~c.nullableOk THEN FormFails("driver", name, newForm)
             ELSE IF name = primaryKey
                  THEN IF has /\ ~opts.IgnorePk
                       THEN FormFails("validation", name, newForm)
                       ELSE rest(newForm)
             ELSE IF has
                  THEN IF TypeSwitchRefuses(form[name], c)
                       THEN FormFails("validation", name, newForm)
                       ELSE rest(Put(newForm, name, form[name]))
             ELSE IF opts.IgnoreNotProvidedField THEN rest(newForm)
             ELSE IF ~c.nullable
                  THEN IF ~opts.WithDefaultValues
                       THEN FormFails("validation", name, newForm)
                       ELSE rest(Put(newForm, name, getDefaultValue(c.type)))
             ELSE rest(Put(newForm, name, Null))

\* processForm not told which column is the primary key
processForm_NoPrimaryKey(form, columns, primaryKey, opts) ==
    processFormFrom(form, columns, "", opts, 1, EmptyForm)

\* processForm starting from the submitted map instead of an empty one
processForm_KeepSubmitted(form, columns, primaryKey, opts) ==
    processFormFrom(form, columns, primaryKey, opts, 1, form)

processForm(form, columns, primaryKey, opts) ==
    processFormFrom(form, columns, primaryKey, opts, 1, EmptyForm)

FormErrorText(res) ==
    IF res.err = "validation" THEN ValidationErrorText(res.field)
    ELSE <<"db driver does not support nullable">>

(***************************************************************************)
(* Statement builders and the engine's execution of them.                  *)
(***************************************************************************)
\* what the engine stores for a bound value: a bool goes over the wire as the
\* integer 1 or 0
EngineValue(v) == IF v.k = "bool" THEN Num(v.n) ELSE v

\* the driver cannot bind an array or an object; the engine refuses NULL in a
\* NOT NULL column and a column it does not know
EngineRefusesValues(table, form) ==
    LET cols == EngineColumns(table)
    IN  \E name \in DOMAIN form :
            \/ form[name].k \in {"arr", "obj"}
            \/ name \notin ColumnNames(cols)
            \/ \E i \in 1..Len(cols) :
                   cols[i].name = name /\ ~cols[i].nullable /\ form[name].k = "null"

\* an INSERT leaves out a NOT NULL column that has no AUTO_INCREMENT (and no
\* default): the engine refuses it
EngineNeedsValue(table, form) ==
    LET cols == EngineColumns(table)
        auto == EngineAutoIncrement(table)
    IN  \E i \in 1..Len(cols) :
            /\ ~cols[i].nullable
            /\ cols[i].name \notin DOMAIN form
            /\ auto = <<>> \/ cols[i].name /= auto[1]

\* createItem giving the counter after the insert instead of the inserted id
createItem_NextId(table, form, columns, primaryKey, fault) ==
    LET cols == ColumnNames(EngineColumns(table))
        auto == EngineAutoIncrement(table)
        id   == IF auto = <<>> THEN 0 ELSE db[table].next
        row  == [c \in cols |->
                    IF c \in DOMAIN form THEN EngineValue(form[c])
                    ELSE IF auto /= <<>> /\ c = auto[1] THEN Num(id)
                    ELSE Null]
    IN  IF fault = "stmt" \/ EngineRefusesValues(table, form)
                          \/ EngineNeedsValue(table, form)
        THEN [err |-> TRUE, pk |-> 0, db |-> db]
        ELSE [err |-> FALSE, pk |-> id + 1,
              db |-> [db EXCEPT ![table].rows = Append(@, row),
                                ![table].next = @ + 1]]

\* INSERT INTO table (<keys of form>) VALUES (?, ...); LastInsertId
createItem(table, form, columns, primaryKey, fault) ==
    LET cols == ColumnNames(EngineColumns(table))
        auto == EngineAutoIncrement(table)
        id   == IF auto = <<>> THEN 0 ELSE db[table].next
        row  == [c \in cols |->
                    IF c \in DOMAIN form THEN EngineValue(form[c])
                    ELSE IF auto /= <<>> /\ c = auto[1] THEN Num(id)
                    ELSE Null]
    IN  IF fault = "stmt" \/ EngineRefusesValues(table, form)
                          \/ EngineNeedsValue(table, form)
        THEN [err |-> TRUE, pk |-> 0, db |-> db]
        ELSE [err |-> FALSE, pk |-> id,
              db |-> [db EXCEPT ![table].rows = Append(@, row),
                                ![table].next = @ + 1]]

\* updateItem with the WHERE clause lost
updateItem_AllRows(table, form, columns, primaryKey, pkValue, fault) ==
    LET new(row) == [c \in DOMAIN row |->
                        IF c \in DOMAIN form THEN EngineValue(form[c]) ELSE row[c]]
        rows == db[table].rows
        changed == {i \in 1..Len(rows) : new(rows[i]) /= rows[i]}
    IN  IF \/ fault = "stmt"
           \/ DOMAIN form = {}
           \/ EngineRefusesValues(table, form)
        THEN [err |-> TRUE, pk |-> 0, db |-> db]
        ELSE [err |-> FALSE, pk |-> Cardinality(changed),
              db |-> [db EXCEPT ![table].rows = [i \in 1..Len(rows) |-> new(rows[i])]]]

\* UPDATE table SET <key = ?, ...> WHERE primaryKey = ?; RowsAffected (the rows
\* whose content changed); an empty SET list does not parse
updateItem(table, form, columns, primaryKey, pkValue, fault) ==
    LET hits == IF EngineKnowsColumn(table, primaryKey)
                THEN EngineWhere(db, table, primaryKey, pkValue) ELSE {}
        new(row) == [c \in DOMAIN row |->
                        IF c \in DOMAIN form THEN EngineValue(form[c]) ELSE row[c]]
        rows == db[table].rows
        changed == {i \in hits : new(rows[i]) /= rows[i]}
    IN  IF \/ fault = "stmt"
           \/ DOMAIN form = {}
           \/ ~EngineKnowsColumn(table, primaryKey)
           \/ EngineRefusesValues(table, form)
        THEN [err |-> TRUE, pk |-> 0, db |-> db]
        ELSE [err |-> FALSE, pk |-> Cardinality(changed),
              db |-> [db EXCEPT ![table].rows =
                         [i \in 1..Len(rows) |->
                             IF i \in hits THEN new(rows[i]) ELSE rows[i]]]]

RECURSIVE Without(_, _)
Without(rows, gone) ==
    IF rows = <<>> THEN <<>>
    ELSE LET n == Len(rows)
             front == Without(SubSeq(rows, 1, n - 1), gone)
         IN  IF n \in gone THEN front ELSE Append(front, rows[n])

\* deleteItem with the WHERE clause lost
deleteItem_AllRows(table, pkName, pkValue, fault) ==
    LET hits == IF EngineKnowsColumn(table, pkName)
                THEN EngineWhere(db, table, pkName, pkValue) ELSE {}
    IN  IF fault = "stmt" \/ ~EngineKnowsColumn(table, pkName)
        THEN [err |-> TRUE, pk |-> 0, db |-> db]
        ELSE [err |-> FALSE, pk |-> Cardinality(hits),
              db |-> [db EXCEPT ![table].rows =
                         IF hits = {} THEN @ ELSE <<>>]]

\* deleteItem reporting one affected row whatever the statement removed
deleteItem_ReportsOne(table, pkName, pkValue, fault) ==
    LET hits == IF EngineKnowsColumn(table, pkName)
                THEN EngineWhere(db, table, pkName, pkValue) ELSE {}
    IN  IF fault = "stmt" \/ ~EngineKnowsColumn(table, pkName)
        THEN [err |-> TRUE, pk |-> 0, db |-> db]
        ELSE [err |-> FALSE, pk |-> 1,
              db |-> [db EXCEPT ![table].rows = Without(@, hits)]]

\* DELETE FROM table WHERE pkName=?; RowsAffected
deleteItem(table, pkName, pkValue, fault) ==
    LET hits == IF EngineKnowsColumn(table, pkName)
                THEN EngineWhere(db, table, pkName, pkValue) ELSE {}
    IN  IF fault = "stmt" \/ ~EngineKnowsColumn(table, pkName)
        THEN [err |-> TRUE, pk |-> 0, db |-> db]
        ELSE [err |-> FALSE, pk |-> Cardinality(hits),
              db |-> [db EXCEPT ![table].rows = Without(@, hits)]]

(***************************************************************************)
(* Request handlers.  A request is [method, path, query, body, fault]:     *)
(* body.valid says whether the body decodes as a JSON object, fault names  *)
(* the database call of this request that the engine fails ("pk": the      *)
(* constraint query, "stmt": the data statement, "none").                  *)
(* A handler gives the response, the database after it and the statements  *)
(* it sent.                                                                *)
(***************************************************************************)
UnknownTable == Response(StatusNotFound, NewErrorResponse(<<"unknown table">>))

\* an index out of range: the server drops the connection without a response
Panicked(d, st) == Out(Response(0, [kind |-> "panic"]), d, st)

\* handlerGetTableNames losing the first name
handlerGetTableNames_Tail(r) ==
    Out(Response(StatusOK, Envelope("tables", Tail(TableNames))), db, <<>>)

handlerGetTableNames(r) ==
    Out(Response(StatusOK, Envelope("tables", TableNames)), db, <<>>)

handlerGetTableItems(r) ==
    LET tn == getTableName(r.path)
        pagination == getPagination(r.query)
        got == getTableItems(tn.name, pagination, r.fault)
        st  == <<Stmt("list", tn.name, "", <<>>, EmptyForm,
                      pagination.Limit, pagination.Offset)>>
    IN  IF tn.panic THEN Panicked(db, <<>>)
        ELSE IF tn.err THEN Out(UnknownTable, db, <<>>)
        ELSE IF got.err THEN Out(Response(StatusInternalServerError, EmptyBody), db, st)
        ELSE Out(Response(StatusOK, Envelope("records", got.res)), db, st)

handlerGetTableItem(r) ==
    LET tn == getTableName(r.path)
        pkValue == getId(r.path)
        pkName == getPrimaryKey(tn.name, r.fault)
        item == getItem(tn.name, pkName.name, pkValue.id, r.fault)
        st1 == <<PkStmt(tn.name)>>
        st2 == Append(st1, Stmt("select", tn.name, pkName.name, pkValue.id,
                                EmptyForm, 0, 0))
    IN  IF tn.panic THEN Panicked(db, <<>>)
        ELSE IF tn.err THEN Out(UnknownTable, db, <<>>)
        ELSE IF pkValue.panic THEN Panicked(db, <<>>)
        ELSE IF pkName.err
             THEN Out(Response(StatusInternalServerError, EmptyBody), db, st1)
        ELSE IF item.err
             THEN Out(Response(StatusNotFound,
                               NewErrorResponse(<<"record not found">>)), db, st2)
        ELSE Out(Response(StatusOK, Envelope("record", item.res)), db, st2)

\* handlerCreateItem decoding the body before it resolves the primary key
handlerCreateItem_DecodeFirst(r) ==
    LET tn == getTableName(r.path)
        cache == getColumnTypesFromCache(tn.name)
        primaryKey == getPrimaryKey(tn.name, r.fault)
        newForm == processForm(r.body.form, cache.columns, primaryKey.name,
                               ValidationOptions(TRUE, FALSE, TRUE))
        made == createItem(tn.name, newForm.form, cache.columns, primaryKey.name,
                           r.fault)
        st1 == <<PkStmt(tn.name)>>
        st2 == Append(st1, Stmt("insert", tn.name, primaryKey.name, <<>>,
                                newForm.form, 0, 0))
    IN  IF tn.panic THEN Panicked(db, <<>>)
        ELSE IF tn.err THEN Out(UnknownTable, db, <<>>)
        ELSE IF ~r.body.valid
             THEN Out(Response(StatusBadRequest, PlainText(<<"json">>)), db, <<>>)
        ELSE IF cache.err
             THEN Out(Response(StatusInternalServerError, EmptyBody), db, <<>>)
        ELSE IF primaryKey.err
             THEN Out(Response(StatusInternalServerError, EmptyBody), db, st1)
        ELSE IF newForm.err /= ""
             THEN Out(Response(StatusBadRequest,
                               NewErrorResponse(FormErrorText(newForm))), db, st1)
        ELSE IF made.err THEN Out(Response(StatusBadRequest, EmptyBody), db, st2)
        ELSE Out(Response(StatusOK,
                          Envelope("created", [c \in {primaryKey.name} |-> Num(made.pk)])),
                 made.db, st2)

handlerCreateItem(r) ==
    LET tn == getTableName(r.path)
        cache == getColumnTypesFromCache(tn.name)
        primaryKey == getPrimaryKey(tn.name, r.fault)
        newForm == processForm(r.body.form, cache.columns, primaryKey.name,
                               ValidationOptions(TRUE, FALSE, TRUE))
        made == createItem(tn.name, newForm.form, cache.columns, primaryKey.name,
                           r.fault)
        st1 == <<PkStmt(tn.name)>>
        st2 == Append(st1, Stmt("insert", tn.name, primaryKey.name, <<>>,
                                newForm.form, 0, 0))
    IN  IF tn.panic THEN Panicked(db, <<>>)
        ELSE IF tn.err THEN Out(UnknownTable, db, <<>>)
        ELSE IF cache.err
             THEN Out(Response(StatusInternalServerError, EmptyBody), db, <<>>)
        ELSE IF primaryKey.err
             THEN Out(Response(StatusInternalServerError, EmptyBody), db, st1)
        ELSE IF ~r.body.valid
             THEN Out(Response(StatusBadRequest, PlainText(<<"json">>)), db, st1)
        ELSE IF newForm.err /= ""
             THEN Out(Response(StatusBadRequest,
                               NewErrorResponse(FormErrorText(newForm))), db, st1)
        ELSE IF made.err THEN Out(Response(StatusBadRequest, EmptyBody), db, st2)
        ELSE Out(Response(StatusOK,
                          Envelope("created", [c \in {primaryKey.name} |-> Num(made.pk)])),
                 made.db, st2)

handlerUpdateItem(r) ==
    LET tn == getTableName(r.path)
        cache == getColumnTypesFromCache(tn.name)
        primaryKey == getPrimaryKey(tn.name, r.fault)
        id == getId(r.path)
        newForm == processForm(r.body.form, cache.columns, primaryKey.name,
                               ValidationOptions(FALSE, TRUE, FALSE))
        done == updateItem(tn.name, newForm.form, cache.columns, primaryKey.name,
                           id.id, r.fault)
        st1 == <<PkStmt(tn.name)>>
        st2 == Append(st1, Stmt("update", tn.name, primaryKey.name, id.id,
                                newForm.form, 0, 0))
    IN  IF tn.panic THEN Panicked(db, <<>>)
        ELSE IF tn.err THEN Out(UnknownTable, db, <<>>)
        ELSE IF cache.err
             THEN Out(Response(StatusInternalServerError, EmptyBody), db, <<>>)
        ELSE IF primaryKey.err
             THEN Out(Response(StatusInternalServerError, EmptyBody), db, st1)
        ELSE IF ~r.body.valid
             THEN Out(Response(StatusBadRequest, PlainText(<<"json">>)), db, st1)
        ELSE IF id.panic THEN Panicked(db, st1)
        ELSE IF newForm.err /= ""
             THEN Out(Response(StatusBadRequest,
                               NewErrorResponse(FormErrorText(newForm))), db, st1)
        ELSE IF done.err THEN Out(Response(StatusBadRequest, EmptyBody), db, st2)
        ELSE Out(Response(StatusOK,
                          Envelope("updated", IF done.pk > 0 THEN 1 ELSE 0)),
                 done.db, st2)

handlerDeleteItem(r) ==
    LET tn == getTableName(r.path)
        id == getId(r.path)
        pkName == getPrimaryKey(tn.name, r.fault)
        done == deleteItem(tn.name, pkName.name, id.id, r.fault)
        st1 == <<PkStmt(tn.name)>>
        st2 == Append(st1, Stmt("delete", tn.name, pkName.name, id.id,
                                EmptyForm, 0, 0))
    IN  IF tn.panic THEN Panicked(db, <<>>)
        ELSE IF tn.err THEN Out(UnknownTable, db, <<>>)
        ELSE IF id.panic THEN Panicked(db, <<>>)
        ELSE IF pkName.err
             THEN Out(Response(StatusInternalServerError, EmptyBody), db, st1)
        ELSE IF done.err
             THEN Out(Response(StatusInternalServerError, EmptyBody), db, st2)
        ELSE Out(Response(StatusOK,
                          Envelope("deleted", IF done.pk > 0 THEN 1 ELSE 0)),
                 done.db, st2)

\* route.Handler(w, r); w.WriteHeader(http.StatusNotFound) when there is none
Invoke(h, r) ==
    CASE h = "handlerGetTableNames" -> handlerGetTableNames(r)
      [] h = "handlerGetTableItems" -> handlerGetTableItems(r)
      [] h = "handlerGetTableItem"  -> handlerGetTableItem(r)
      [] h = "handlerCreateItem"    -> handlerCreateItem(r)
      [] h = "handlerDeleteItem"    -> handlerDeleteItem(r)
      [] h = "handlerUpdateItem"    -> handlerUpdateItem(r)
      [] OTHER -> Out(Response(StatusNotFound, EmptyBody), db, <<>>)

\* ServeHTTP: the handler the routes give, 404 when no route matches
ServeHTTP(r) == Invoke(Dispatch(r.method, r.path), r)

(***************************************************************************)
(* Requests of the model.                                                  *)
(***************************************************************************)
Methods == {"GET", "PUT", "POST", "DELETE"}

\* table names in paths: the two tables and names the catalog does not hold
PathNames == {TblT, TblU, <<"x">>}

PathIds == {<<"1">>, <<"2">>}

Paths ==
    {<<"/">>, <<>>, <<"/", "/">>, <<"/", "t", "/", "x">>, <<"/", "x", "/", "x">>}
    \cup {<<"/">> \o n : n \in PathNames}
    \cup {<<"/">> \o n \o <<"/">> : n \in PathNames}
    \cup {<<"/">> \o n \o <<"/">> \o i : n \in PathNames, i \in PathIds}

QueryValues == {<<"0">>, <<"1">>, <<"-", "1">>, <<"x">>}

Queries == UNION {[S -> QueryValues] : S \in SUBSET {"limit", "offset"}}

NoQuery == [c \in {} |-> <<>>]

\* JSON objects over the keys title and qty, and some that also give id
Forms ==
    LET plain == {f \in UNION {[S -> {Num(7), Str("a"), Null}] :
                                   S \in SUBSET {"title", "qty"}} :
                      "title" \in DOMAIN f => f["title"] /= Null}
    IN  plain \cup {Put(f, "id", Num(7)) :
                       f \in {g \in plain : "qty" \notin DOMAIN g}}

NoBody == [valid |-> FALSE, form |-> EmptyForm]

Bodies == {NoBody} \cup {[valid |-> TRUE, form |-> f] : f \in Forms}

Faults == {"none", "pk", "stmt"}

\* body and fault of a create or update: every body on a working engine, and
\* some bodies with each failure
BodyInputs ==
    {[body |-> b, fault |-> "none"] : b \in Bodies}
    \cup {[body |-> b, fault |-> f] :
             b \in {c \in Bodies : DOMAIN c.form \subseteq {"title"}},
             f \in Faults \ {"none"}}

\* query and fault of a listing
QueryInputs ==
    {[query |-> q, fault |-> "none"] : q \in Queries}
    \cup {[query |-> q, fault |-> "stmt"] : q \in {g \in Queries : DOMAIN g = {}}}

Request(method, path, query, body, fault) ==
    [method |-> method, path |-> path, query |-> query, body |-> body,
     fault |-> fault]

NoRequest == Request("", <<>>, NoQuery, NoBody, "none")

NoResponse == Response(0, EmptyBody)

(***************************************************************************)
(* The service as a state machine: a request is served in one step (the    *)
(* handler runs to its end), then the exchange ends.                       *)
(***************************************************************************)
\* the process constructs the explorer on a database whose table listing
\* behaves as given
Start(listing) ==
    LET explorer == NewDbExplorer(listing)
    IN  /\ TableNames = explorer.TableNames
        /\ TableColumns = explorer.TableColumns
        /\ startup = [listing |-> listing, err |-> explorer.err]
        /\ db = EngineInitial
        /\ phase = "idle"
        /\ req = NoRequest
        /\ resp = NoResponse
        /\ stmts = <<>>

Init == Start("ok")

\* request r is served; there is a server only when construction gave no error
Serve(r) ==
    /\ ~startup.err
    /\ LET out == ServeHTTP(r)
       IN  /\ Created(out.db) <= MaxCreate
           /\ db' = out.db
           /\ resp' = out.resp
           /\ stmts' = out.stmts
    /\ req' = r
    /\ phase' = "answered"
    /\ UNCHANGED <<TableNames, TableColumns, startup>>

\* the requests of the model by the handler the router gives them to
Handlers == {"handlerGetTableNames", "handlerGetTableItems", "handlerGetTableItem",
             "handlerCreateItem", "handlerDeleteItem", "handlerUpdateItem", ""}

Routed ==
    [h \in Handlers |-> {mp \in Methods \X Paths : Dispatch(mp[1], mp[2]) = h}]

GetTableNames ==
    \E mp \in Routed["handlerGetTableNames"] :
        /\ phase = "idle"
        /\ Serve(Request(mp[1], mp[2], NoQuery, NoBody, "none"))

GetTableItems ==
    \E mp \in Routed["handlerGetTableItems"], in \in QueryInputs :
        /\ phase = "idle"
        /\ Serve(Request(mp[1], mp[2], in.query, NoBody, in.fault))

GetTableItem ==
    \E mp \in Routed["handlerGetTableItem"], f \in Faults :
        /\ phase = "idle"
        /\ Serve(Request(mp[1], mp[2], NoQuery, NoBody, f))

CreateItem ==
    \E mp \in Routed["handlerCreateItem"], in \in BodyInputs :
        /\ phase = "idle"
        /\ Serve(Request(mp[1], mp[2], NoQuery, in.body, in.fault))

UpdateItem ==
    \E mp \in Routed["handlerUpdateItem"], in \in BodyInputs :
        /\ phase = "idle"
        /\ Serve(Request(mp[1], mp[2], NoQuery, in.body, in.fault))

DeleteItem ==
    \E mp \in Routed["handlerDeleteItem"], f \in Faults :
        /\ phase = "idle"
        /\ Serve(Request(mp[1], mp[2], NoQuery, NoBody, f))

\* no route matches
NotFound ==
    \E mp \in Routed[""] :
        /\ phase = "idle"
        /\ Serve(Request(mp[1], mp[2], NoQuery, NoBody, "none"))

\* the response has been sent
Finish ==
    /\ phase = "answered"
    /\ phase' = "idle"
    /\ req' = NoRequest
    /\ resp' = NoResponse
    /\ stmts' = <<>>
    /\ UNCHANGED <<TableNames, TableColumns, db, startup>>

Next ==
    \/ GetTableNames
    \/ GetTableItems
    \/ GetTableItem
    \/ CreateItem
    \/ UpdateItem
    \/ DeleteItem
    \/ NotFound
    \/ Finish

Spec == Init /\ [][Next]_vars

(***************************************************************************)
(* The field validator on its own: processForm applied to a submitted map, *)
(* a column list, a primary-key name and an option set.  req holds the     *)
(* arguments, resp the result.                                             *)
(***************************************************************************)
SubmittedValues == {Num(7), Str("a"), Null, Bool(TRUE), Arr, Obj}

\* maps over id, title and qty, with or without a key that no table has
SubmittedForms ==
    LET named == UNION {[S -> SubmittedValues] : S \in SUBSET {"id", "title", "qty"}}
    IN  named \cup {Put(f, "zzz", Num(7)) : f \in named}

\* the column lists of t and u, one with a nullable string column and a
\* NOT NULL column whose type is neither numeric nor string, and one whose
\* key column is not the first
ColumnLists ==
    {EngineColumns(TblT), EngineColumns(TblU),
     <<Column("id", "INT", FALSE), Column("title", "TEXT", TRUE),
       Column("qty", "BOOL", FALSE)>>,
     <<Column("title", "VARCHAR", FALSE), Column("id", "INT", FALSE)>>}

\* the key column of a list of ColumnLists
KeyColumn(cols) == cols[CHOOSE i \in 1..Len(cols) : cols[i].type = "INT"].name

OptionSets == {ValidationOptions(a, b, c) : a, b, c \in BOOLEAN}

ValidatorInputs ==
    {[form |-> f, columns |-> cols, primaryKey |-> KeyColumn(cols), opts |-> o] :
        f \in SubmittedForms, cols \in ColumnLists, o \in OptionSets}

InitValidator ==
    /\ req \in ValidatorInputs
    /\ resp = NoResponse
    /\ phase = "idle"
    /\ stmts = <<>>
    /\ db = EngineInitial
    /\ TableNames = EngineTables
    /\ TableColumns = initTableColumns(EngineTables)
    /\ startup = [listing |-> "ok", err |-> FALSE]

Validate ==
    /\ phase = "idle"
    /\ resp' = processForm(req.form, req.columns, req.primaryKey, req.opts)
    /\ phase' = "answered"
    /\ UNCHANGED <<TableNames, TableColumns, db, req, stmts, startup>>

NextValidator == Validate

SpecValidator == InitValidator /\ [][NextValidator]_vars

\* the service started on a database whose table listing may fail
InitAnyListing == \E listing \in Listings : Start(listing)

SpecStartup == InitAnyListing /\ [][Next]_vars

(***************************************************************************)
(* The service on the second database, whose tables have no primary key    *)
(* (n) or a composite one (k).                                             *)
(***************************************************************************)
KeyForms ==
    {EmptyForm, [c \in {"title"} |-> Str("a")], [c \in {"title"} |-> Num(7)],
     [c \in {"qty"} |-> Null]}

KeyRequests ==
    LET names  == {TblN, TblK}
        item   == {<<"/">> \o tb \o <<"/">> \o i : tb \in names, i \in PathIds}
        create == {<<"/">> \o tb \o <<"/">> : tb \in names}
        bodies == {NoBody} \cup {[valid |-> TRUE, form |-> f] : f \in KeyForms}
    IN  {Request("GET", <<"/">> \o tb, NoQuery, NoBody, f) :
             tb \in names, f \in {"none", "stmt"}}
        \cup {Request(m, p, NoQuery, NoBody, f) :
                  m \in {"GET", "DELETE"}, p \in item, f \in Faults}
        \cup {Request("PUT", p, NoQuery, b, f) : p \in create, b \in bodies, f \in Faults}
        \cup {Request("POST", p, NoQuery, b, f) : p \in item, b \in bodies, f \in Faults}

InitKeys ==
    /\ TableNames = EngineTablesKeys
    /\ TableColumns = initTableColumns(EngineTablesKeys)
    /\ startup = [listing |-> "ok", err |-> FALSE]
    /\ db = EngineInitialKeys
    /\ phase = "idle"
    /\ req = NoRequest
    /\ resp = NoResponse
    /\ stmts = <<>>

\* a request is served
ServeKeyed ==
    \E r \in KeyRequests :
        /\ phase = "idle"
        /\ LET out == ServeHTTP(r)
           IN  /\ CreatedSince(out.db, EngineInitialKeys) <= MaxCreate
               /\ db' = out.db
               /\ resp' = out.resp
               /\ stmts' = out.stmts
        /\ req' = r
        /\ phase' = "answered"
        /\ UNCHANGED <<TableNames, TableColumns, startup>>

NextKeys == ServeKeyed \/ Finish

SpecKeys == InitKeys /\ [][NextKeys]_vars

(***************************************************************************)
(* Concurrent requests.  net/http runs every request in a goroutine of its *)
(* own; the handlers take no lock and open no transaction, so the          *)
(* statements of two requests interleave: the constraint query of a        *)
(* request is one step and its data statement (with what the handler does  *)
(* around it) another.  req[p] holds the request of goroutine p and how    *)
(* far it is, resp[p] its response; stmts is the order in which the engine *)
(* got the statements.                                                     *)
(***************************************************************************)
Goroutines == {1, 2}

ConcurrentRequests ==
    LET body(f) == [valid |-> TRUE, form |-> f]
        title(v) == [c \in {"title"} |-> v]
        qty(v)   == [c \in {"qty"} |-> v]
    IN  {Request("DELETE", <<"/", "t", "/", "1">>, NoQuery, NoBody, "none"),
         Request("DELETE", <<"/", "t", "/", "2">>, NoQuery, NoBody, "none"),
         Request("DELETE", <<"/", "t", "/", "1">>, NoQuery, NoBody, "pk"),
         Request("DELETE", <<"/", "x", "/", "1">>, NoQuery, NoBody, "none"),
         Request("PUT", <<"/", "t", "/">>, NoQuery, body(title(Str("a"))), "none"),
         Request("PUT", <<"/", "t", "/">>, NoQuery, body(EmptyForm), "none"),
         Request("PUT", <<"/", "t", "/">>, NoQuery, body(title(Num(7))), "none"),
         Request("PUT", <<"/", "u", "/">>, NoQuery, body(qty(Num(7))), "none"),
         Request("POST", <<"/", "t", "/", "1">>, NoQuery, body(qty(Null)), "none")}

InFlight(r, pc) == [r |-> r, pc |-> pc]

InitConcurrent ==
    /\ req \in [Goroutines -> {InFlight(r, "new") : r \in ConcurrentRequests}]
    /\ resp = [p \in Goroutines |-> NoResponse]
    /\ phase = "idle"
    /\ stmts = <<>>
    /\ db = EngineInitial
    /\ TableNames = EngineTables
    /\ TableColumns = initTableColumns(EngineTables)
    /\ startup = [listing |-> "ok", err |-> FALSE]

\* the handler of goroutine p up to its constraint query: a request that is
\* answered without any statement (unknown table, no route) ends here
ResolveKey ==
    \E p \in Goroutines :
        /\ req[p].pc = "new"
        /\ LET out == ServeHTTP(req[p].r)
           IN  IF out.stmts = <<>>
               THEN /\ resp' = [resp EXCEPT ![p] = out.resp]
                    /\ req' = [req EXCEPT ![p].pc = "done"]
                    /\ stmts' = stmts
               ELSE /\ resp' = resp
                    /\ req' = [req EXCEPT ![p].pc = "keyed"]
                    /\ stmts' = Append(stmts, Head(out.stmts))
        /\ UNCHANGED <<TableNames, TableColumns, db, phase, startup>>

\* the rest of the handler of goroutine p: its data statement, if it gets
\* that far, on the database as it is now, and the response
RunStatement ==
    \E p \in Goroutines :
        /\ req[p].pc = "keyed"
        /\ LET out == ServeHTTP(req[p].r)
           IN  /\ resp' = [resp EXCEPT ![p] = out.resp]
               /\ db' = out.db
               /\ stmts' = stmts \o Tail(out.stmts)
        /\ req' = [req EXCEPT ![p].pc = "done"]
        /\ UNCHANGED <<TableNames, TableColumns, phase, startup>>

NextConcurrent == ResolveKey \/ RunStatement

SpecConcurrent == InitConcurrent /\ [][NextConcurrent]_vars

(***************************************************************************)
(* Properties.                                                             *)
(***************************************************************************)
Answered == phase = "answered"

AllWord(s) == \A i \in 1..Len(s) : isWordChar(s[i])

\* the shapes of the paths of section 6, read off the split path
IsTablePath(p) ==
    LET parts == Split(p)
    IN  Len(parts) = 2 /\ parts[1] = <<>> /\ AllWord(parts[2])

IsItemPath(p) ==
    LET parts == Split(p)
    IN  Len(parts) = 3 /\ parts[1] = <<>> /\ AllWord(parts[2]) /\ AllDigits(parts[3])

IsCreatePath(p) == IsItemPath(p) /\ Split(p)[3] = <<>>

IsRoot(p) == p = <<"/">>

\* the request addresses one of the table endpoints
IsList(r)   == r.method = "GET" /\ IsTablePath(r.path) /\ ~IsRoot(r.path)
IsGet(r)    == r.method = "GET" /\ IsItemPath(r.path)
IsCreate(r) == r.method = "PUT" /\ IsCreatePath(r.path)
IsUpdate(r) == r.method = "POST" /\ IsItemPath(r.path)
IsDelete(r) == r.method = "DELETE" /\ IsItemPath(r.path)
IsEndpoint(r) == IsList(r) \/ IsGet(r) \/ IsCreate(r) \/ IsUpdate(r) \/ IsDelete(r)

\* the table segment of the path
PathTable(p) == Split(p)[2]

Catalog == {TableNames[i] : i \in 1..Len(TableNames)}

\* the path has a table segment, which is not in the catalog
NamesUnknownTable(r) ==
    Len(Split(r.path)) >= 2 /\ ~IsRoot(r.path) /\ PathTable(r.path) \notin Catalog

NamesKnownTable(r) ==
    Len(Split(r.path)) >= 2 /\ ~IsRoot(r.path) /\ PathTable(r.path) \in Catalog

\* C1 as stated: every request whose path names a table outside the catalog is
\* answered 404 with {error: "unknown table"}, whatever the method and the
\* rest of the path.
C1_AnyPathUnknownTable ==
    (Answered /\ NamesUnknownTable(req)) => resp = UnknownTable

\* C1 amended: a request to a table endpoint (a method and path that a route
\* matches) whose table is not in the catalog is answered 404 with
\* {error: "unknown table"} and sends no statement, whatever the method, query,
\* body and engine failure; a request that no route matches is answered 404
\* with an empty body.
C1_EndpointUnknownTable ==
    (Answered /\ NamesUnknownTable(req)) =>
        IF IsEndpoint(req)
        THEN resp = UnknownTable /\ stmts = <<>>
        ELSE resp = Response(StatusNotFound, EmptyBody)

C1_Witness ==
    /\ Answered /\ NamesUnknownTable(req) /\ IsUpdate(req)
    /\ req.body.valid /\ "title" \in DOMAIN req.body.form
    /\ resp = UnknownTable

(***************************************************************************)
(* Validation on create and update.                                        *)
(***************************************************************************)
\* a request has just been served: the step from idle to answered
Served == phase = "idle" /\ phase' = "answered"

\* the primary key of a table of the database
PrimaryKeyOf(tb) == EnginePrimaryKey(tb)[1]

ColIsNumeric(c) == c.type = "NUMBER"
ColIsString(c)  == c.type \in {"VARCHAR", "TEXT", "NVARCHAR"}

\* the three mismatches of C2 for column c
BadField(c, form) ==
    /\ c.name \in DOMAIN form
    /\ \/ form[c.name].k = "str" /\ ColIsNumeric(c)
       \/ form[c.name].k = "num" /\ ColIsString(c)
       \/ form[c.name].k = "null" /\ ~c.nullable

\* column c is refused: a string for a type that is no string type, a number
\* for a type that is not numeric, null for a NOT NULL column, or, on update,
\* the primary key
Refused(c, form, pk, update) ==
    /\ c.name \in DOMAIN form
    /\ IF c.name = pk THEN update
       ELSE \/ form[c.name].k = "str" /\ ~ColIsString(c)
            \/ form[c.name].k = "num" /\ ~ColIsNumeric(c)
            \/ form[c.name].k = "null" /\ ~c.nullable

SendsNoData(st) == \A i \in 1..Len(st) : st[i].op \notin {"insert", "update"}

InvalidType(name) ==
    Response(StatusBadRequest, NewErrorResponse(<<"field ", name, " have invalid type">>))

\* r is a create or an update of a known table that reaches validation: the
\* primary key is resolved and the body is a JSON object
ReachesValidation(r) ==
    /\ IsCreate(r) \/ IsUpdate(r)
    /\ NamesKnownTable(r)
    /\ r.body.valid
    /\ r.fault /= "pk"

\* C2 as stated: on create and update of a known table, every non-primary-key
\* column that is given a string though numeric, a number though a string
\* column, or null though NOT NULL is the column the 400 response names, and
\* the request is not executed.
C2_NamesEachBadColumn ==
    [][(Served /\ ReachesValidation(req')) =>
        LET cols == TableColumns[PathTable(req'.path)]
            pk   == PrimaryKeyOf(PathTable(req'.path))
        IN  \A i \in 1..Len(cols) :
                (cols[i].name /= pk /\ BadField(cols[i], req'.body.form)) =>
                    /\ resp' = InvalidType(cols[i].name)
                    /\ SendsNoData(stmts')
                    /\ db' = db]_vars

\* C2 amended: when some non-primary-key column is given such a value, the
\* response is 400 with {error: "field <c> have invalid type"}, <c> being the
\* first column in the table's column order that the validator refuses (which
\* on update may be the submitted primary key), no INSERT or UPDATE is sent
\* and the database is unchanged.
C2_NamesFirstRefusedColumn ==
    [][(Served /\ ReachesValidation(req')) =>
        LET cols == TableColumns[PathTable(req'.path)]
            pk   == PrimaryKeyOf(PathTable(req'.path))
            form == req'.body.form
            bad  == {i \in 1..Len(cols) : Refused(cols[i], form, pk, IsUpdate(req'))}
        IN  (\E i \in 1..Len(cols) : cols[i].name /= pk /\ BadField(cols[i], form)) =>
                /\ bad /= {}
                /\ resp' = InvalidType(cols[CHOOSE i \in bad : \A j \in bad : i <= j].name)
                /\ SendsNoData(stmts')
                /\ db' = db]_vars

\* a create with two mismatched columns is answered with the first one
C2_Witness ==
    /\ Answered /\ IsCreate(req) /\ PathTable(req.path) = TblT /\ req.body.valid
    /\ DOMAIN req.body.form = {"title", "qty"}
    /\ req.body.form["title"] = Num(7) /\ req.body.form["qty"] = Str("a")
    /\ resp = InvalidType("title")

(***************************************************************************)
(* Create, then read back.                                                 *)
(***************************************************************************)
DigitChar(n) == CHOOSE c \in Digits : DigitVal(c) = n

\* the decimal digits of a natural number
RECURSIVE Decimal(_)
Decimal(n) == IF n < 10 THEN <<DigitChar(n)>> ELSE Append(Decimal(n \div 10), DigitChar(n % 10))

ItemPath(tb, n) == <<"/">> \o tb \o <<"/">> \o Decimal(n)

TypeCorrect(c, v) ==
    \/ v.k = "num" /\ ColIsNumeric(c)
    \/ v.k = "str" /\ ColIsString(c)
    \/ v.k = "null" /\ c.nullable

\* what a column that the body omits reads back as
OmittedReadsAs(c) ==
    IF c.nullable THEN Null
    ELSE IF ColIsNumeric(c) THEN Num(0)
    ELSE IF ColIsString(c) THEN Str("")
    ELSE Bool(FALSE)

RowsWithKey(d, tb, n) ==
    {i \in 1..Len(d[tb].rows) : d[tb].rows[i][PrimaryKeyOf(tb)] = Num(n)}

\* the number the id segment of an item path stands for
PathKey(p) == IF Split(p)[3] = <<>> THEN 0 ELSE DigitsValue(Split(p)[3])

Deleted(n) == Response(StatusOK, Envelope("deleted", n))

\* the step is a create on table tb that is answered with id n
CreatesKey(tb, n) ==
    /\ Served /\ IsCreate(req') /\ NamesKnownTable(req') /\ PathTable(req'.path) = tb
    /\ resp'.status = StatusOK
    /\ resp'.body.response[PrimaryKeyOf(tb)] = Num(n)

\* the rows of a table without those at the positions in gone
RECURSIVE Remaining(_, _, _)
Remaining(rows, gone, i) ==
    IF i > Len(rows) THEN <<>>
    ELSE IF i \in gone THEN Remaining(rows, gone, i + 1)
    ELSE <<rows[i]>> \o Remaining(rows, gone, i + 1)

\* C4: a DELETE /T/{id} on a known table (engine working) is answered
\* {deleted:1} when a row with that key exists and then removes exactly that
\* row, and {deleted:0} with nothing changed when none exists; and a key that
\* has no row gets none unless a create is answered with that key.  So once a
\* DELETE /T/{id} is answered, every later one is answered {deleted:0} until
\* that id is created.
C4_DeleteIdempotent ==
    [][/\ (Served /\ IsDelete(req') /\ NamesKnownTable(req') /\ req'.fault = "none") =>
            LET tb   == PathTable(req'.path)
                hits == RowsWithKey(db, tb, PathKey(req'.path))
            IN  /\ Cardinality(hits) <= 1
                /\ resp' = Deleted(IF hits = {} THEN 0 ELSE 1)
                /\ db' = [db EXCEPT ![tb].rows = Remaining(@, hits, 1)]
                /\ RowsWithKey(db', tb, PathKey(req'.path)) = {}
       /\ \A tb \in Catalog : \A n \in 0..(db[tb].next + 1) :
            (RowsWithKey(db, tb, n) = {} /\ ~CreatesKey(tb, n)) =>
                RowsWithKey(db', tb, n) = {}]_vars

\* the second DELETE of the row that the table starts with, while another row
\* of the table stays
C4_Witness ==
    /\ Answered /\ IsDelete(req) /\ req.path = ItemPath(TblT, 1) /\ req.fault = "none"
    /\ resp = Deleted(0)
    /\ Len(db[TblT].rows) = 1

(***************************************************************************)
(* Listing.                                                                *)
(***************************************************************************)
\* the value of a query parameter: the default when it is absent or is no
\* integer
QueryParam(q, key, default) ==
    IF key \in DOMAIN q /\ Atoi(q[key]).ok THEN Atoi(q[key]).val ELSE default

\* C5: GET /T?limit=L&offset=O on a known table with L, O >= 0 (5 and 0 for
\* a parameter that is absent or is no integer) is answered with exactly the
\* rows O+1 .. min(n, O+L) of the table, in their order (engine working); the
\* statement sent is bound to that L and O.
C5_ListWindow ==
    (Answered /\ IsList(req) /\ NamesKnownTable(req) /\ req.fault = "none") =>
        LET rows == db[PathTable(req.path)].rows
            L == QueryParam(req.query, "limit", 5)
            O == QueryParam(req.query, "offset", 0)
            last == IF O + L < Len(rows) THEN O + L ELSE Len(rows)
        IN  /\ Len(stmts) = 1 /\ stmts[1].op = "list"
            /\ stmts[1].limit = L /\ stmts[1].offset = O
            /\ (L >= 0 /\ O >= 0) =>
                /\ resp.status = StatusOK
                /\ resp.body.kind = "records"
                /\ Len(resp.body.response) <= L
                /\ resp.body.response = [i \in 1..(last - O) |-> rows[O + i]]

\* the second of two rows, asked for with limit=1 and offset=1
C5_Witness ==
    /\ Answered /\ IsList(req) /\ PathTable(req.path) = TblT /\ req.fault = "none"
    /\ DOMAIN req.query = {"limit", "offset"}
    /\ req.query["limit"] = <<"1">> /\ req.query["offset"] = <<"1">>
    /\ Len(db[TblT].rows) = 2
    /\ resp.body.response = <<db[TblT].rows[2]>>

\* C6 as stated: the limit and the offset bound into a list statement are
\* never negative.
C6_PaginationNonNegative ==
    Answered =>
        \A i \in 1..Len(stmts) :
            stmts[i].op = "list" => (stmts[i].limit >= 0 /\ stmts[i].offset >= 0)

(***************************************************************************)
(* Update.                                                                 *)
(***************************************************************************)
Updated(n) == Response(StatusOK, Envelope("updated", n))

\* C7 as stated: a POST /T/{id} on a known table whose body passes update
\* validation (engine working) sends one UPDATE restricted to the row with
\* that key, is answered {updated:u} with u in {0,1}, and changes no row with
\* another key.
C7_UpdateOneRow ==
    [][(/\ Served /\ IsUpdate(req') /\ ReachesValidation(req') /\ req'.fault = "none"
        /\ LET cols == TableColumns[PathTable(req'.path)]
           IN  \A i \in 1..Len(cols) :
                   ~Refused(cols[i], req'.body.form, PrimaryKeyOf(PathTable(req'.path)), TRUE))
       =>
       LET tb == PathTable(req'.path)
           pk == PrimaryKeyOf(tb)
           n  == PathKey(req'.path)
       IN  /\ resp' \in {Updated(0), Updated(1)}
           /\ Cardinality({i \in 1..Len(stmts') : stmts'[i].op = "update"}) = 1
           /\ \A i \in 1..Len(stmts') :
                  stmts'[i].op = "update" =>
                      stmts'[i].pk = pk /\ stmts'[i].id = Split(req'.path)[3]
           /\ Len(db'[tb].rows) = Len(db[tb].rows)
           /\ \A i \in 1..Len(db[tb].rows) :
                  db[tb].rows[i][pk] /= Num(n) => db'[tb].rows[i] = db[tb].rows[i]
           /\ \A other \in Catalog \ {tb} : db'[other] = db[other]]_vars

(***************************************************************************)
(* Reading one row.                                                        *)
(***************************************************************************)
RecordNotFound == Response(StatusNotFound, NewErrorResponse(<<"record not found">>))

\* C8: GET /T/{id} on a known table (engine working) is answered 200 with the
\* whole row of that key when there is one, and 404 with
\* {error: "record not found"} when there is none.
C8_GetRowOrNotFound ==
    (Answered /\ IsGet(req) /\ NamesKnownTable(req) /\ req.fault = "none") =>
        LET tb   == PathTable(req.path)
            hits == RowsWithKey(db, tb, PathKey(req.path))
        IN  IF hits = {} THEN resp = RecordNotFound
            ELSE /\ resp.status = StatusOK
                 /\ resp.body.kind = "record"
                 /\ DOMAIN resp.body.response = ColumnNames(TableColumns[tb])
                 /\ \E i \in hits : resp.body.response = db[tb].rows[i]

\* a row that was created by a request is read
C8_Witness ==
    /\ Answered /\ IsGet(req) /\ req.path = ItemPath(TblU, 1) /\ req.fault = "none"
    /\ resp.status = StatusOK
    /\ resp.body.response["uid"] = Num(1)

(***************************************************************************)
(* Failures of the engine.                                                 *)
(***************************************************************************)
ServerError == Response(StatusInternalServerError, EmptyBody)

\* the body passes the validation of the request's handler
PassesValidation(r) ==
    LET cols == TableColumns[PathTable(r.path)]
    IN  /\ r.body.valid
        /\ \A i \in 1..Len(cols) :
               ~Refused(cols[i], r.body.form, PrimaryKeyOf(PathTable(r.path)), IsUpdate(r))

\* C9 as stated: on a known table, a failed constraint query is answered 500
\* with an empty body; a failed INSERT or UPDATE is answered 400; a failed
\* list, single-row or DELETE statement is answered 500 with an empty body.
C9_FailureStatus ==
    (Answered /\ IsEndpoint(req) /\ NamesKnownTable(req)) =>
        /\ (req.fault = "pk" /\ ~IsList(req)) => resp = ServerError
        /\ (req.fault = "stmt" /\ (IsCreate(req) \/ IsUpdate(req)) /\ PassesValidation(req))
               => resp.status = StatusBadRequest
        /\ (req.fault = "stmt" /\ (IsList(req) \/ IsGet(req) \/ IsDelete(req)))
               => resp = ServerError

C11_ListingFailureIsFatal ==
    startup.listing /= "ok" =>
        /\ startup.err
        /\ ~Answered
        /\ TableNames = <<>>

(***************************************************************************)
(* Dispatch.                                                               *)
(***************************************************************************)
\* the whole path has the form of the pattern of the i-th registered route
\* ("/", "/\w*", "/\w*/[0-9]*", "/\w*/"), read off the split path
WholePath(i, p) ==
    CASE i = 1 -> IsRoot(p)
      [] i = 2 -> IsTablePath(p)
      [] i = 4 -> IsCreatePath(p)
      [] OTHER -> IsItemPath(p)

\* the earliest registered route of that method whose pattern is the form of
\* the whole path, 0 when there is none
EarliestRoute(method, p) ==
    LET hits == {i \in 1..Len(initRoutes) :
                     initRoutes[i].Method = method /\ WholePath(i, p)}
    IN  IF hits = {} THEN 0 ELSE CHOOSE i \in hits : \A j \in hits : i <= j

\* C12: every request is answered by exactly the handler of the earliest
\* registered route whose method is the request's and whose pattern matches
\* the whole path; a request no route matches runs no handler and is
\* answered 404 with nothing sent to the database.
C12_EarliestWholeMatch ==
    [][Served =>
        LET i   == EarliestRoute(req'.method, req'.path)
            out == IF i = 0
                   THEN Out(Response(StatusNotFound, EmptyBody), db, <<>>)
                   ELSE Invoke(initRoutes[i].Handler, req')
        IN  /\ resp' = out.resp
            /\ db' = out.db
            /\ stmts' = out.stmts]_vars

\* a path with a prefix that a pattern of the method matches is not routed
C12_Witness ==
    /\ Answered
    /\ req.method = "PUT" /\ req.path = <<"/", "t", "/", "1">>
    /\ resp = Response(StatusNotFound, EmptyBody)
    /\ stmts = <<>>

\* the registered routes of that method whose pattern matches the path
MatchingRoutes(method, p) ==
    {i \in 1..Len(initRoutes) :
         initRoutes[i].Method = method /\ MatchString(initRoutes[i].Pattern, p)}

\* the routes registered in the opposite order
ReversedRoutes == [i \in 1..Len(initRoutes) |-> initRoutes[Len(initRoutes) + 1 - i]]

\* C13 as stated: no request path is matched by the patterns of two routes of
\* the request's method, and the handler a request gets is the same when the
\* routes are registered in the opposite order.
C13_NoTwoRoutesMatch ==
    Answered =>
        /\ Cardinality(MatchingRoutes(req.method, req.path)) <= 1
        /\ RouteFrom(ReversedRoutes, 1, req.method, req.path)
               = Dispatch(req.method, req.path)

\* C13 amended: the one request matched by two routes is GET / (the patterns
\* "/" and "/\w*" both match it): it gets the table list because "/" is
\* registered first, and would get the row listing of a table named "" under
\* the opposite order.  Every other request is matched by at most one route
\* and gets the same handler under either order.
C13_OnlyRootMatchesTwice ==
    Answered =>
        LET hits == MatchingRoutes(req.method, req.path)
            back == RouteFrom(ReversedRoutes, 1, req.method, req.path)
        IN  IF req.method = "GET" /\ IsRoot(req.path)
            THEN /\ hits = {1, 2}
                 /\ Dispatch(req.method, req.path) = "handlerGetTableNames"
                 /\ back = "handlerGetTableItems"
            ELSE /\ Cardinality(hits) <= 1
                 /\ back = Dispatch(req.method, req.path)

\* GET / answered with the table list while two routes match it
C13_Witness ==
    /\ Answered
    /\ req.method = "GET" /\ IsRoot(req.path)
    /\ Cardinality(MatchingRoutes(req.method, req.path)) = 2
    /\ resp = Response(StatusOK, Envelope("tables", TableNames))

(***************************************************************************)
(* The validator (properties of SpecValidator).                            *)
(***************************************************************************)
\* the submitted map without the keys that are no column of the list
OnlyColumns(form, columns) ==
    [c \in (DOMAIN form) \cap ColumnNames(columns) |-> form[c]]

ColumnIndex(columns, name) == CHOOSE i \in 1..Len(columns) : columns[i].name = name

\* the submitted map without one key
DropKey(form, key) == [c \in (DOMAIN form) \ {key} |-> form[c]]

\* the sanitized map is inserted into a table of the database that has this
\* column list: the id the engine returns is its own next id, and it is the
\* key of the row added
InsertGetsEngineKey(columns, pk, form) ==
    \A tb \in {TblT, TblU} :
        columns = EngineColumns(tb) =>
            LET made == createItem(tb, form, columns, pk, "none")
            IN  ~made.err =>
                    /\ made.pk = db[tb].next
                    /\ made.db[tb].rows[Len(made.db[tb].rows)][pk] = Num(made.pk)

Missing(c, form, pk) == c.name /= pk /\ c.name \notin DOMAIN form

\* the default of the type of column c
TypeDefault(c) ==
    IF ColIsNumeric(c) THEN Num(0) ELSE IF ColIsString(c) THEN Str("") ELSE Bool(FALSE)

\* a missing column that has to be given: NOT NULL, with no default to take
MissingRefused(c, form, pk, opts) ==
    /\ Missing(c, form, pk)
    /\ ~opts.IgnoreNotProvidedField /\ ~c.nullable /\ ~opts.WithDefaultValues

\* what a successful validation leaves in the sanitized map for the missing
\* columns: nothing when missing columns are ignored, else null for a nullable
\* column, else the type default
MissingFilled(columns, form, pk, opts, sanitized) ==
    \A i \in 1..Len(columns) :
        LET c == columns[i]
        IN  Missing(c, form, pk) =>
                IF opts.IgnoreNotProvidedField THEN c.name \notin DOMAIN sanitized
                ELSE /\ c.name \in DOMAIN sanitized
                     /\ sanitized[c.name] = IF c.nullable THEN Null ELSE TypeDefault(c)

\* C16 as stated: a missing column is left out when missing columns are
\* ignored, else is null when nullable, else is the type default when
\* defaults are substituted, else validation fails naming that column.
C16_MissingNamed ==
    Answered =>
        /\ resp.err = "" =>
               MissingFilled(req.columns, req.form, req.primaryKey, req.opts, resp.form)
        /\ \A i \in 1..Len(req.columns) :
               MissingRefused(req.columns[i], req.form, req.primaryKey, req.opts) =>
                   (resp.err = "validation" /\ resp.field = req.columns[i].name)

\* C16 amended: as above, but when a missing column has to be given the
\* failure names the first column of the list that is refused, which is that
\* column only when no column before it is refused.
C16_MissingRule ==
    Answered =>
        LET cols == req.columns
            bad  == {i \in 1..Len(cols) :
                        \/ Refused(cols[i], req.form, req.primaryKey, ~req.opts.IgnorePk)
                        \/ MissingRefused(cols[i], req.form, req.primaryKey, req.opts)}
        IN  /\ resp.err = "" =>
                   MissingFilled(cols, req.form, req.primaryKey, req.opts, resp.form)
            /\ \A i \in 1..Len(cols) :
                   MissingRefused(cols[i], req.form, req.primaryKey, req.opts) =>
                       /\ resp.err = "validation"
                       /\ resp.field = cols[CHOOSE j \in bad : \A k \in bad : j <= k].name

\* a create on t that gives neither column: the NOT NULL string column gets
\* the empty string and the nullable column null
C16_Witness ==
    /\ Answered
    /\ req.columns = EngineColumns(TblT)
    /\ req.opts = ValidationOptions(TRUE, FALSE, TRUE)
    /\ DOMAIN req.form = {}
    /\ resp.err = ""
    /\ resp.form = [c \in {"title", "qty"} |-> IF c = "title" THEN Str("") ELSE Null]

(***************************************************************************)
(* All or nothing (properties of Spec).                                    *)
(***************************************************************************)
\* the step from database d to database e adds one row to table tb and
\* touches nothing else
AddsOneRow(d, e, tb) ==
    /\ Len(e[tb].rows) = Len(d[tb].rows) + 1
    /\ SubSeq(e[tb].rows, 1, Len(d[tb].rows)) = d[tb].rows
    /\ \A other \in (DOMAIN d) \ {tb} : e[other] = d[other]

\* the step from d to e rewrites at most one row of table tb and touches
\* nothing else
RewritesAtMostOneRow(d, e, tb) ==
    /\ Len(e[tb].rows) = Len(d[tb].rows)
    /\ Cardinality({i \in 1..Len(d[tb].rows) : e[tb].rows[i] /= d[tb].rows[i]}) <= 1
    /\ \A other \in (DOMAIN d) \ {tb} : e[other] = d[other]

\* C17: a create or update that is not answered 200 leaves the database as it
\* was; an INSERT or UPDATE is sent only for a known table and a body that
\* passed validation; a create answered 200 adds one row and an update
\* answered 200 rewrites at most one row, nothing else being touched.
C17_AllOrNothing ==
    [][(Served /\ (IsCreate(req') \/ IsUpdate(req'))) =>
        /\ resp'.status /= StatusOK => db' = db
        /\ ~SendsNoData(stmts') =>
               (NamesKnownTable(req') /\ req'.fault /= "pk" /\ PassesValidation(req'))
        /\ resp'.status = StatusOK =>
               IF IsCreate(req')
               THEN AddsOneRow(db, db', PathTable(req'.path))
               ELSE RewritesAtMostOneRow(db, db', PathTable(req'.path))]_vars

\* an update of a table of three rows is answered 200
C17_Witness ==
    /\ Answered /\ IsUpdate(req) /\ PathTable(req.path) = TblT
    /\ Len(db[TblT].rows) = 3
    /\ resp = Updated(1)

\* an insert that the engine rejects is answered 400
C17_WitnessRejected ==
    /\ Answered /\ IsCreate(req) /\ req.fault = "stmt"
    /\ resp.status = StatusBadRequest
    /\ ~SendsNoData(stmts)

(***************************************************************************)
(* Concurrent requests (properties of SpecConcurrent).                     *)
(***************************************************************************)
BothDone == \A p \in Goroutines : req[p].pc = "done"

IsCreated(r) == r.status = StatusOK /\ r.body.kind = "created"

\* C18: when two goroutines have finished, two deletes of the same row that
\* was there are answered {deleted:1} and {deleted:0}, one each, and the row
\* is gone; two creates on the same table whose bodies pass validation are
\* both answered 200 with different ids, and the table has both rows.
C18_StatementsAtomic ==
    BothDone =>
        LET r1 == req[1].r
            r2 == req[2].r
            tb == PathTable(r1.path)
        IN  /\ (/\ IsDelete(r1) /\ r2 = r1 /\ NamesKnownTable(r1) /\ r1.fault = "none"
                /\ RowsWithKey(EngineInitial, tb, PathKey(r1.path)) /= {})
               => /\ {resp[1], resp[2]} = {Deleted(1), Deleted(0)}
                  /\ RowsWithKey(db, tb, PathKey(r1.path)) = {}
            /\ (/\ IsCreate(r1) /\ IsCreate(r2) /\ PathTable(r2.path) = tb
                /\ NamesKnownTable(r1)
                /\ PassesValidation(r1) /\ PassesValidation(r2))
               => /\ IsCreated(resp[1]) /\ IsCreated(resp[2])
                  /\ resp[1].body.response[PrimaryKeyOf(tb)]
                         /= resp[2].body.response[PrimaryKeyOf(tb)]
                  /\ Len(db[tb].rows) = Len(EngineInitial[tb].rows) + 2
                  /\ \A p \in Goroutines :
                         RowsWithKey(db, tb, resp[p].body.response[PrimaryKeyOf(tb)].n) /= {}

\* two deletes of row 1 of t whose constraint queries both came before
\* either DELETE statement
C18_Witness ==
    /\ BothDone
    /\ \A p \in Goroutines : req[p].r.method = "DELETE" /\ req[p].r.fault = "none"
    /\ req[1].r.path = <<"/", "t", "/", "1">> /\ req[2].r = req[1].r
    /\ Len(stmts) = 4
    /\ stmts[1].op = "pk" /\ stmts[2].op = "pk"
    /\ stmts[3].op = "delete" /\ stmts[4].op = "delete"
    /\ resp[2] = Deleted(1) /\ resp[1] = Deleted(0)

(***************************************************************************)
(* Order of the checks of create and update (properties of Spec).          *)
(***************************************************************************)
\* the statements sent are the constraint query alone
OnlyKeyQuery(st, tb) == st = <<PkStmt(tb)>>

\* the statements sent are the constraint query and then one INSERT (create)
\* or one UPDATE (update)
KeyQueryThenData(st, tb, r) ==
    /\ Len(st) = 2
    /\ st[1] = PkStmt(tb)
    /\ st[2].op = IF IsCreate(r) THEN "insert" ELSE "update"
    /\ st[2].table = tb

\* C19: a create or update is answered by the first check that fails, in the
\* order known table (404, no statement), primary-key resolution (500, empty
\* body, whatever the body), JSON decoding (400, plain text), validation (400
\* naming a field); the INSERT or UPDATE is sent only when all have passed,
\* and always after the constraint query.
C19_OrderOfChecks ==
    (Answered /\ (IsCreate(req) \/ IsUpdate(req))) =>
        LET tb == PathTable(req.path)
        IN  IF ~NamesKnownTable(req) THEN resp = UnknownTable /\ stmts = <<>>
            ELSE IF req.fault = "pk" THEN resp = ServerError /\ OnlyKeyQuery(stmts, tb)
            ELSE IF ~req.body.valid
                 THEN /\ resp.status = StatusBadRequest /\ resp.body.kind = "text"
                      /\ OnlyKeyQuery(stmts, tb)
            ELSE IF ~PassesValidation(req)
                 THEN /\ resp.status = StatusBadRequest /\ resp.body.kind = "error"
                      /\ resp.body.error[1] = "field "
                      /\ OnlyKeyQuery(stmts, tb)
            ELSE KeyQueryThenData(stmts, tb, req)

\* a create whose body does not decode and whose constraint query fails is
\* answered 500
C19_Witness ==
    /\ Answered /\ IsCreate(req) /\ NamesKnownTable(req)
    /\ req.fault = "pk" /\ ~req.body.valid
    /\ resp = ServerError
    /\ stmts = <<PkStmt(PathTable(req.path))>>

(***************************************************************************)
(* Values that are neither number, string nor null (SpecValidator).        *)
(***************************************************************************)
OtherKind(v) == v.k \in {"bool", "arr", "obj"}

\* the sanitized map the create and the update handler bind into their
\* statement for this body on table tb, when they get to the statement
BoundForms(tb, form) ==
    LET body == [valid |-> TRUE, form |-> form]
        made == handlerCreateItem(
                    Request("PUT", <<"/">> \o tb \o <<"/">>, NoQuery, body, "none"))
        done == handlerUpdateItem(
                    Request("POST", ItemPath(tb, 1), NoQuery, body, "none"))
    IN  {out.stmts[2].form : out \in {o \in {made, done} : Len(o.stmts) = 2}}

\* C20: a submitted boolean, array or object for a column that is not the key
\* is never the value validation fails on, whatever the type and the
\* nullability of the column and the options; when validation succeeds it is
\* in the sanitized map unchanged, and it is in the map the handlers bind
\* into the INSERT or UPDATE.
C20_OtherKindsPass ==
    Answered =>
        \A i \in 1..Len(req.columns) :
            LET name == req.columns[i].name
            IN  (/\ name /= req.primaryKey
                 /\ name \in DOMAIN req.form
                 /\ OtherKind(req.form[name]))
                =>
                /\ ~(resp.err /= "" /\ resp.field = name)
                /\ resp.err = "" =>
                       (name \in DOMAIN resp.form /\ resp.form[name] = req.form[name])
                /\ \A tb \in {TblT, TblU} :
                       req.columns = EngineColumns(tb) =>
                           \A bound \in BoundForms(tb, req.form) :
                               name \in DOMAIN bound /\ bound[name] = req.form[name]

\* a boolean for a NOT NULL string column and an array for a numeric column
\* pass, and the create handler binds them into its INSERT
C20_Witness ==
    /\ Answered
    /\ req.columns = EngineColumns(TblT)
    /\ req.form = [c \in {"title", "qty"} |-> IF c = "title" THEN Bool(TRUE) ELSE Arr]
    /\ resp.err = ""
    /\ resp.form = req.form
    /\ req.form \in BoundForms(TblT, req.form)

(***************************************************************************)
(* Tables without a single-column primary key (properties of SpecKeys).    *)
(***************************************************************************)
\* what the constraint query returns last for the tables of the second
\* database: nothing for n, b for k
LastKeyColumn(tb) == IF tb = TblN THEN "" ELSE "b"

\* C21: when the constraint query works, getPrimaryKey gives no error and
\* gives "" for the table without a primary key and the last key column for
\* the composite key; no create, get, update or delete is answered with the
\* 500 of a failed key resolution; get and delete, and an update whose body
\* passes validation, send their statement with that name (the empty one for
\* n) as the column of the WHERE clause.
C21_EmptyKeyGoesOn ==
    (Answered /\ NamesKnownTable(req) /\ req.fault /= "pk" /\ ~IsList(req)) =>
        LET tb  == PathTable(req.path)
            key == LastKeyColumn(tb)
            sent(op) == /\ Len(stmts) = 2
                        /\ stmts[1] = PkStmt(tb)
                        /\ stmts[2].op = op
                        /\ stmts[2].pk = key
                        /\ stmts[2].id = Split(req.path)[3]
        IN  /\ getPrimaryKey(tb, req.fault) = [err |-> FALSE, name |-> key]
            /\ stmts /= <<>> /\ stmts[1] = PkStmt(tb)
            /\ req.fault = "none" /\ ~IsDelete(req) => resp /= ServerError
            /\ IsGet(req) => sent("select")
            /\ IsDelete(req) => sent("delete")
            /\ (/\ IsUpdate(req) /\ req.body.valid
                /\ \A i \in 1..Len(TableColumns[tb]) :
                       ~Refused(TableColumns[tb][i], req.body.form, key, TRUE))
               => sent("update")

\* a delete on the table without a primary key sends DELETE ... WHERE =?,
\* which the engine rejects
C21_Witness ==
    /\ Answered /\ IsDelete(req) /\ PathTable(req.path) = TblN /\ req.fault = "none"
    /\ Len(stmts) = 2
    /\ stmts[2].op = "delete" /\ stmts[2].pk = ""
    /\ resp = ServerError

(***************************************************************************)
(* Path extraction (properties of Spec).                                   *)
(***************************************************************************)
\* the handlers that call getTableName, and those that also call getId
CallsGetTableName ==
    {"handlerGetTableItems", "handlerGetTableItem", "handlerCreateItem",
     "handlerDeleteItem", "handlerUpdateItem"}

CallsGetId == {"handlerGetTableItem", "handlerDeleteItem", "handlerUpdateItem"}

\* C22: the path of a request that a route matches splits into at least 2
\* segments when its handler calls getTableName and into at least 3 when it
\* calls getId; no request is left without a response by an index out of
\* range.
C22_NoIndexOutOfRange ==
    Answered =>
        LET h == Dispatch(req.method, req.path)
        IN  /\ h \in CallsGetTableName =>
                   (Len(Split(req.path)) >= 2 /\ ~getTableName(req.path).panic)
            /\ h \in CallsGetId =>
                   (Len(Split(req.path)) >= 3 /\ ~getId(req.path).panic)
            /\ resp.status /= 0
            /\ resp.body.kind /= "panic"

\* GET /t/ gets to the single-row handler, which looks for the row with the
\* empty id
C22_Witness ==
    /\ Answered
    /\ req.method = "GET" /\ req.path = <<"/", "t", "/">> /\ req.fault = "none"
    /\ Dispatch(req.method, req.path) = "handlerGetTableItem"
    /\ getId(req.path) = [panic |-> FALSE, id |-> <<>>]
    /\ Len(stmts) = 2 /\ stmts[2].op = "select" /\ stmts[2].id = <<>>
    /\ resp = RecordNotFound

====
